---- MODULE Spec2Model ----
(***************************************************************************)
(* Model of pagecountssearch/search.py: the index builder, the index       *)
(* loader, the stateless search and the stateful Finder.                   *)
(*                                                                         *)
(* A string is the sequence of its character codes, so that Python's       *)
(* string and tuple orderings are the lexicographic orderings below.  A    *)
(* line of the index artifact is the string written, "\n" included.  A     *)
(* line of a partition file is held as line[:-1].split(' '), the sequence  *)
(* of its space-separated fields (every line ends in "\n").  A file is the *)
(* sequence of its lines.                                                  *)
(***************************************************************************)
EXTENDS Integers, Sequences, FiniteSets, TLC

VARIABLES
    files,       \* source_dir: file name -> sequence of lines (read-only dataset)
    unreadable,  \* names of the files of source_dir on which gzip.open fails
    index_file,  \* the index artifact: None, or Some(sequence of lines)
    finder,      \* the Finder object (its fields)
    cache,       \* the lru_cache(1) of Finder.search: None, or Some([key, value])
    open_files,  \* handles of the partition streams that are open
    history,     \* the queries given to Finder.search and the builds run so far (ghost)
    ret          \* observation of the last call: what it was given and what it did

vars == <<files, unreadable, index_file, finder, cache, open_files, history, ret>>

\* Optional values: None is the empty tuple, a present value x is <<x>>
None == <<>>
Some(x) == <<x>>

----------------------------------------------------------------------------
(* Strings and their ordering *)

RECURSIVE StrLess(_, _)
\* Python's str.__lt__: lexicographic on code points
StrLess(s, t) ==
    IF t = <<>> THEN FALSE
    ELSE IF s = <<>> THEN TRUE
    ELSE IF s[1] # t[1] THEN s[1] < t[1]
    ELSE StrLess(Tail(s), Tail(t))

\* Python's tuple ordering on (project, page)
KeyLess(k1, k2) ==
    \/ StrLess(k1[1], k2[1])
    \/ k1[1] = k2[1] /\ StrLess(k1[2], k2[2])

KeyLeq(k1, k2) == k1 = k2 \/ KeyLess(k1, k2)

RECURSIVE Join(_)
\* ' '.join(fields), what print(a, b, c) writes before the newline
Join(fields) ==
    IF Len(fields) = 0 THEN <<>>
    ELSE IF Len(fields) = 1 THEN fields[1]
    ELSE fields[1] \o <<32>> \o Join(Tail(fields))

RECURSIVE SplitFrom(_, _, _)
SplitFrom(s, i, cur) ==
    IF i > Len(s) THEN <<cur>>
    ELSE IF s[i] = 32 THEN <<cur>> \o SplitFrom(s, i + 1, <<>>)
    ELSE SplitFrom(s, i + 1, Append(cur, s[i]))

\* str.split(' ')
Split(s) == SplitFrom(s, 1, <<>>)

\* line[:-1]
DropLast(s) == IF Len(s) = 0 THEN s ELSE SubSeq(s, 1, Len(s) - 1)

----------------------------------------------------------------------------
(* urllib.parse quote / unquote, on code points below 128 *)

IsDigit(c) == c \in 48..57
IsHex(c) == c \in 48..57 \/ c \in 65..70 \/ c \in 97..102
HexVal(c) == IF c \in 48..57 THEN c - 48
             ELSE IF c \in 65..70 THEN c - 55
             ELSE c - 87
HexDigit(n) == IF n < 10 THEN 48 + n ELSE 55 + n

\* characters quote() leaves alone: letters, digits, "_.-~" and the safe "/"
QuoteSafe(c) ==
    \/ c \in 48..57 \/ c \in 65..90 \/ c \in 97..122
    \/ c \in {95, 46, 45, 126, 47}

RECURSIVE quote(_)
quote(s) ==
    IF s = <<>> THEN <<>>
    ELSE (IF QuoteSafe(s[1]) THEN <<s[1]>>
          ELSE <<37, HexDigit(s[1] \div 16), HexDigit(s[1] % 16)>>)
         \o quote(Tail(s))

RECURSIVE unquote(_)
unquote(s) ==
    IF s = <<>> THEN <<>>
    ELSE IF s[1] = 37 /\ Len(s) >= 3 /\ IsHex(s[2]) /\ IsHex(s[3])
         THEN <<16 * HexVal(s[2]) + HexVal(s[3])>> \o unquote(SubSeq(s, 4, Len(s)))
    ELSE <<s[1]>> \o unquote(Tail(s))

----------------------------------------------------------------------------
(* parse_line and parse_index_line *)

AllDigits(s) == Len(s) > 0 /\ \A i \in 1..Len(s) : IsDigit(s[i])

RECURSIVE DecVal(_)
DecVal(s) == IF s = <<>> THEN 0 ELSE 10 * DecVal(DropLast(s)) + (s[Len(s)] - 48)

\* int(s) succeeds
IsInt(s) == AllDigits(s)

\* the number written by the two digits at i, i+1 and by the four at i..i+3
Num2(s, i) == 10 * (s[i] - 48) + (s[i + 1] - 48)
Num4(s, i) == 100 * Num2(s, i) + Num2(s, i + 2)

\* strptime(s, '%Y%m%d-%H%M%S') succeeds (fixed-width fields)
IsTimestamp(s) ==
    /\ Len(s) = 15
    /\ s[9] = 45
    /\ \A i \in (1..15) \ {9} : IsDigit(s[i])
    /\ Num2(s, 5) \in 1..12
    /\ Num2(s, 7) \in 1..31
    /\ Num2(s, 10) \in 0..23
    /\ Num2(s, 12) \in 0..59
    /\ Num2(s, 14) \in 0..61

\* the UTC instant: <<year, month, day, hour, minute, second>>
parse_timestamp(s) ==
    << Num4(s, 1), Num2(s, 5), Num2(s, 7), Num2(s, 10), Num2(s, 12), Num2(s, 14) >>

\* parse_line(line) raises (ValueError: wrong field count, bad timestamp, bad int)
Malformed(f) ==
    \/ Len(f) # 5
    \/ ~IsTimestamp(f[3])
    \/ ~IsInt(f[4])
    \/ ~IsInt(f[5])

\* f is line[:-1].split(' ')
parse_line(f) ==
    [ project     |-> f[1],
      page        |-> unquote(f[2]),
      timestamp   |-> parse_timestamp(f[3]),
      count       |-> DecVal(f[4]),
      bytes_trans |-> DecVal(f[5]) ]

\* key=lambda record: (record[0], record[1])
RecordKey(r) == <<r.project, r.page>>

\* parse_index_line raises (ValueError: wrong field count)
MalformedIndexLine(line) == Len(Split(DropLast(line))) # 3

parse_index_line(line) ==
    LET f == Split(DropLast(line)) IN
    [ file_name |-> f[1], project |-> f[2], page |-> unquote(f[3]) ]

----------------------------------------------------------------------------
(* The lazy scan: the generator (parse_line(line) for line in lines) under  *)
(* itertools.groupby.  An iterator is a record                              *)
(*   h, path   the stream it reads and the file that stream was opened on   *)
(*   pos       number of lines the generator has taken from the stream      *)
(*   dead      the generator has finished (exhausted, or it raised)         *)
(*   tgtkey, currkey, currvalue   the fields of the groupby object          *)
(* A step returns [it, kind, val, exc]: kind is "yield", "stop" or "raise". *)

NewIter(h, path) ==
    [ h |-> h, path |-> path, pos |-> 0, dead |-> FALSE,
      tgtkey |-> None, currkey |-> None, currvalue |-> None ]

NoIter == NewIter(0, <<>>)

Step(it, kind, val, exc) == [ it |-> it, kind |-> kind, val |-> val, exc |-> exc ]

\* next() of the generator of records
GenNext(it, fs, open) ==
    IF it.dead THEN Step(it, "stop", None, "")
    ELSE IF it.h \notin open
         THEN Step([it EXCEPT !.dead = TRUE], "raise", None, "ClosedFile")
    ELSE IF it.pos >= Len(fs[it.path])
         THEN Step([it EXCEPT !.dead = TRUE], "stop", None, "")
    ELSE IF Malformed(fs[it.path][it.pos + 1])
         THEN Step([it EXCEPT !.pos = @ + 1, !.dead = TRUE], "raise", None,
                   "MalformedRecord")
    ELSE Step([it EXCEPT !.pos = @ + 1], "yield",
              Some(parse_line(fs[it.path][it.pos + 1])), "")

\* the groupby object takes the record the generator gave it
TakeRecord(g) ==
    IF g.kind = "yield"
    THEN Step([g.it EXCEPT !.currvalue = g.val,
                           !.currkey = Some(RecordKey(g.val[1]))],
              "yield", None, "")
    ELSE g

\* groupby_step: read one record into currkey/currvalue
GroupbyStep(it, fs, open) == TakeRecord(GenNext(it, fs, open))

RECURSIVE GroupbyNext(_, _, _)
RECURSIVE GroupbySkip(_, _, _)
\* next() of the groupby object: skip the rest of the current group, then
\* yield the key of the next one
GroupbyNext(it, fs, open) ==
    IF it.currkey # None /\ (it.tgtkey = None \/ it.tgtkey # it.currkey)
    THEN Step([it EXCEPT !.tgtkey = it.currkey], "yield", it.currkey, "")
    ELSE GroupbySkip(GroupbyStep(it, fs, open), fs, open)

\* s is the step just made: go on unless the generator stopped or raised
GroupbySkip(s, fs, open) ==
    IF s.kind = "yield" THEN GroupbyNext(s.it, fs, open) ELSE s

\* TakeFromGroup that hands out currvalue whatever its key
TakeFromGroupGreedy(s) ==
    IF s.kind # "yield" THEN s
    ELSE Step([s.it EXCEPT !.currvalue = None], "yield", s.it.currvalue, "")

\* the group iterator hands out currvalue if it still belongs to its group
TakeFromGroup(s) ==
    IF s.kind # "yield" THEN s
    ELSE IF s.it.tgtkey # s.it.currkey THEN Step(s.it, "stop", None, "")
    ELSE Step([s.it EXCEPT !.currvalue = None], "yield", s.it.currvalue, "")

\* next() of the group iterator handed out with the key
GrouperNext(it, fs, open) ==
    TakeFromGroup(IF it.currvalue = None THEN GroupbyStep(it, fs, open)
                  ELSE Step(it, "yield", None, ""))

\* (timestamp, count, bytes_trans) of a record
Triple(r) == <<r.timestamp, r.count, r.bytes_trans>>

RECURSIVE GroupListReversed(_, _, _, _)
RECURSIVE GroupListReversedAdd(_, _, _, _)
\* GroupList building the list back to front
GroupListReversed(it, fs, open, acc) ==
    GroupListReversedAdd(GrouperNext(it, fs, open), fs, open, acc)

GroupListReversedAdd(s, fs, open, acc) ==
    IF s.kind = "yield"
    THEN GroupListReversed(s.it, fs, open, <<Triple(s.val[1])>> \o acc)
    ELSE IF s.kind = "stop" THEN Step(s.it, "yield", acc, "")
    ELSE Step(s.it, "raise", acc, s.exc)

RECURSIVE GroupList(_, _, _, _)
RECURSIVE GroupListAdd(_, _, _, _)
\* [(timestamp, count, bytes_trans) for _, _, timestamp, count, bytes_trans
\*  in records_group]; val is the list built (so far, if it raised)
GroupList(it, fs, open, acc) ==
    GroupListAdd(GrouperNext(it, fs, open), fs, open, acc)

\* s is what the group iterator gave
GroupListAdd(s, fs, open, acc) ==
    IF s.kind = "yield"
    THEN GroupList(s.it, fs, open, Append(acc, Triple(s.val[1])))
    ELSE IF s.kind = "stop" THEN Step(s.it, "yield", acc, "")
    ELSE Step(s.it, "raise", acc, s.exc)

Grouped(outcome, keys, groups) ==
    [ outcome |-> outcome, keys |-> keys, groups |-> groups ]

RECURSIVE GroupAll(_, _, _, _, _)
RECURSIVE GroupAllKey(_, _, _, _, _)
RECURSIVE GroupAllList(_, _, _, _, _)
\* the grouped sequence read to its end, each group read when it is yielded:
\* keys are the Keys yielded, groups the records of each group (as triples)
GroupAll(it, fs, open, keys, groups) ==
    GroupAllKey(GroupbyNext(it, fs, open), fs, open, keys, groups)

\* n is what next() of the groupby object gave
GroupAllKey(n, fs, open, keys, groups) ==
    IF n.kind = "stop" THEN Grouped("ok", keys, groups)
    ELSE IF n.kind = "raise" THEN Grouped(n.exc, keys, groups)
    ELSE GroupAllList(GroupList(n.it, fs, open, <<>>), fs, open,
                      Append(keys, n.val[1]), groups)

\* g is the group just yielded, read to its end
GroupAllList(g, fs, open, keys, groups) ==
    IF g.kind = "raise" THEN Grouped(g.exc, keys, groups)
    ELSE GroupAll(g.it, fs, open, keys, Append(groups, g.val))

\* parse_and_group_records(lines) over the lines of fs[path], read through the
\* open stream h
parse_and_group_records(fs, path, h) == GroupAll(NewIter(h, path), fs, {h}, <<>>, <<>>)

----------------------------------------------------------------------------
(* The index: build_index, read_index and the sorted collection *)

\* the file name matches 'part-*.gz'
Glob(name) ==
    /\ Len(name) >= 8
    /\ SubSeq(name, 1, 5) = <<112, 97, 114, 116, 45>>
    /\ SubSeq(name, Len(name) - 2, Len(name)) = <<46, 103, 122>>

RECURSIVE SortedNames(_)
\* sorted(names)
SortedNames(names) ==
    IF names = {} THEN <<>>
    ELSE LET m == CHOOSE x \in names : \A y \in names \ {x} : StrLess(x, y)
         IN <<m>> \o SortedNames(names \ {m})

\* sorted(source_dir.glob('part-*.gz'))
PartFiles(fs) == SortedNames({n \in DOMAIN fs : Glob(n)})

\* part_file.readline(): the first line; at end of file '', whose only field is ''
ReadLine(lines) == IF Len(lines) = 0 THEN << <<>> >> ELSE lines[1]

\* IndexLine with the page written as it is, not quoted
IndexLineUnquoted(name, record) == Join(<<name, record.project, record.page>>) \o <<10>>

\* print(part_file_path.name, record.project, quote(record.page), file=index_f)
IndexLine(name, record) == Join(<<name, record.project, quote(record.page)>>) \o <<10>>

RECURSIVE BuildLoop(_, _, _)
\* the for loop of build_index over the sorted partition files; written is
\* what has gone to index_f when the loop ends or raises
BuildLoop(fs, parts, written) ==
    IF parts = <<>> THEN [ outcome |-> "ok", written |-> written ]
    ELSE LET line == ReadLine(fs[parts[1]]) IN
         IF Malformed(line)
         THEN [ outcome |-> "MalformedRecord", written |-> written ]
         ELSE BuildLoop(fs, Tail(parts),
                        Append(written, IndexLine(parts[1], parse_line(line))))

\* OpenWt in append mode: the artifact keeps what it held
OpenAppend(artifact) == IF artifact = None THEN <<>> ELSE artifact[1]

\* output_path.open('wt'): the artifact is created, or truncated if it is there
OpenWt(artifact) == <<>>

\* build_index on a directory whose index artifact is artifact (None: no such
\* file); leaving the with block closes the artifact with whatever was written
build_index(fs, artifact) == BuildLoop(fs, PartFiles(fs), OpenWt(artifact))

\* key=lambda x: x[1:]
IndexKey(entry) == <<entry.project, entry.page>>

RECURSIVE InsertSorted(_, _)
InsertSorted(sorted, e) ==
    IF sorted = <<>> THEN <<e>>
    ELSE IF KeyLess(IndexKey(e), IndexKey(sorted[1])) THEN <<e>> \o sorted
    ELSE <<sorted[1]>> \o InsertSorted(Tail(sorted), e)

RECURSIVE SortedCollection(_)
\* the entries in Key order (entries of equal Key keep their order)
SortedCollection(entries) ==
    IF entries = <<>> THEN <<>>
    ELSE InsertSorted(SortedCollection(DropLast(entries)), entries[Len(entries)])

RECURSIVE BisectRight(_, _, _, _)
BisectRight(ix, k, lo, hi) ==
    IF lo >= hi THEN lo
    ELSE LET mid == (lo + hi) \div 2 IN
         IF KeyLess(k, IndexKey(ix[mid + 1]))
         THEN BisectRight(ix, k, lo, mid)
         ELSE BisectRight(ix, k, mid + 1, hi)

\* the item before insertion point i; None stands for NotFound (no such item)
ItemBefore(ix, i) == IF i = 0 THEN None ELSE Some(ix[i])

\* find_le(k): the entry with the greatest Key <= k
find_le(ix, k) == ItemBefore(ix, BisectRight(ix, k, 0, Len(ix)))

RECURSIVE BisectLeft(_, _, _, _)
BisectLeft(ix, k, lo, hi) ==
    IF lo >= hi THEN lo
    ELSE LET mid == (lo + hi) \div 2 IN
         IF KeyLess(IndexKey(ix[mid + 1]), k)
         THEN BisectLeft(ix, k, mid + 1, hi)
         ELSE BisectLeft(ix, k, lo, mid)

\* find_lt(k): the entry with the greatest Key < k
find_lt(ix, k) == ItemBefore(ix, BisectLeft(ix, k, 0, Len(ix)))

\* read_index: parse every line of the artifact and order the entries by Key
read_index(lines) ==
    IF \E i \in 1..Len(lines) : MalformedIndexLine(lines[i])
    THEN [ outcome |-> "ValueError", index |-> <<>> ]
    ELSE [ outcome |-> "ok",
           index |-> SortedCollection([i \in 1..Len(lines) |-> parse_index_line(lines[i])]) ]

----------------------------------------------------------------------------
(* Streams *)

\* the handle of a newly opened stream: one no live reference names
FreshHandle(used) == CHOOSE h \in 1..(Cardinality(used) + 1) :
                         h \notin used /\ \A g \in 1..(h - 1) : g \in used

\* gzip.open(path) succeeds: the file is there and can be read
CanOpen(fs, path) == path \in DOMAIN fs /\ path \notin unreadable

\* WithExit as a close() placed after the loop: skipped when the scan raises
WithExitNoFinally(open, h, outcome) == IF outcome = "ok" THEN open \ {h} ELSE open

\* leaving "with part_file:", normally or by an exception, closes the stream
WithExit(open, h, outcome) == open \ {h}

----------------------------------------------------------------------------
(* The stateless search *)

\* .file_name of the entry found; None when find_le raised
FileNameOf(e) == IF e = None THEN None ELSE Some(e[1].file_name)

\* ResolvePartition through find_lt
ResolvePartitionLt(ix, q) == FileNameOf(find_lt(ix, q))

\* index.find_le((project, page)).file_name
ResolvePartition(ix, q) == FileNameOf(find_le(ix, q))

\* SkipGroup that skips every group: the loop never leaves early
SkipGroupAlways(key, q) == TRUE

\* if key < (project, page): continue
SkipGroup(key, q) == KeyLess(key, q)

Scan(it, outcome, result, drawn) ==
    [ it |-> it, outcome |-> outcome, result |-> result, drawn |-> drawn ]

\* return [...]: g is the list comprehension over the group, which may raise
SearchReturn(g, drawn) ==
    IF g.kind = "raise" THEN Scan(g.it, g.exc, <<>>, drawn)
    ELSE Scan(g.it, "ok", g.val, drawn)

RECURSIVE SearchLoop(_, _, _, _, _)
RECURSIVE SearchGroup(_, _, _, _, _)
\* for key, records_group in grouped_records: ... ; return []
SearchLoop(it, q, fs, open, drawn) ==
    SearchGroup(GroupbyNext(it, fs, open), q, fs, open, drawn)

\* the loop body; n is what next(grouped_records) gave
SearchGroup(n, q, fs, open, drawn) ==
    IF n.kind = "stop" THEN Scan(n.it, "ok", <<>>, drawn)
    ELSE IF n.kind = "raise" THEN Scan(n.it, n.exc, <<>>, drawn)
    ELSE IF SkipGroup(n.val[1], q)
         THEN SearchLoop(n.it, q, fs, open, Append(drawn, n.val[1]))
    ELSE IF KeyLess(q, n.val[1])
         THEN Scan(n.it, "ok", <<>>, Append(drawn, n.val[1]))
    ELSE SearchReturn(GroupList(n.it, fs, open, <<>>), Append(drawn, n.val[1]))

\* the end of search(): s is the scan made on stream h, open the streams open
\* inside the with block
SearchEnd(s, part, h, open) ==
    [ outcome |-> s.outcome, result |-> s.result, part |-> part,
      drawn |-> s.drawn, h |-> Some(h), open |-> WithExit(open, h, s.outcome) ]

\* search() from gzip.open on; part is the partition resolved, h a fresh handle
SearchPartition(part, fs, q, open, h) ==
    IF part = None
    THEN [ outcome |-> "NotFound", result |-> <<>>, part |-> None, drawn |-> <<>>,
           h |-> None, open |-> open ]
    ELSE IF ~CanOpen(fs, part[1])
    THEN [ outcome |-> "FileNotFound", result |-> <<>>, part |-> part, drawn |-> <<>>,
           h |-> None, open |-> open ]
    ELSE SearchEnd(SearchLoop(NewIter(h, part[1]), q, fs, open \cup {h}, <<>>),
                   part, h, open \cup {h})

\* search(source_dir, index, project, page): what it returns or raises, the
\* partition it resolved, the stream it opened and the streams open afterwards
search(fs, ix, q, open, used) ==
    SearchPartition(ResolvePartition(ix, q), fs, q, open, FreshHandle(used))

----------------------------------------------------------------------------
(* The Finder *)

NoFinder ==
    [ constructed |-> FALSE, curr_file_path |-> None, curr_file |-> None,
      curr_iter |-> NoIter, last_key |-> None, index |-> <<>> ]

\* SwitchTest with the reopening test last_key > (project, page)
SwitchTestStrict(f, path, q) ==
    IF f.curr_file_path # Some(path) THEN "switch"
    ELSE IF f.last_key = None THEN "TypeError"
    ELSE IF KeyLess(q, f.last_key[1]) THEN "switch"
    ELSE "continue"

\* SwitchTest by file_changed alone
SwitchTestPathOnly(f, path, q) ==
    IF f.curr_file_path # Some(path) THEN "switch" ELSE "continue"

\* file_changed or self.last_key >= (project, page); comparing the initial
\* last_key None with a tuple raises TypeError
SwitchTest(f, path, q) ==
    IF f.curr_file_path # Some(path) THEN "switch"
    ELSE IF f.last_key = None THEN "TypeError"
    ELSE IF KeyLeq(q, f.last_key[1]) THEN "switch"
    ELSE "continue"

\* SwitchClose without the close
SwitchCloseLeak(f, open) == open

\* the streams open after _switch_file closed the current one
SwitchClose(f, open) ==
    IF f.curr_file # None THEN open \ {f.curr_file[1]} ELSE open

\* _switch_file(new_file_path) followed by the reset of curr_iter; when
\* gzip.open raises, the path is already assigned and the rest is not
SwitchFile(f, path, fs, open, used) ==
    LET after == SwitchClose(f, open)
        closed == IF f.curr_file # None /\ f.curr_file[1] \in open
                  THEN f.curr_file ELSE None IN
    IF ~CanOpen(fs, path)
    THEN [ f |-> [f EXCEPT !.curr_file_path = Some(path)], open |-> after,
           outcome |-> "FileNotFound", h |-> None, closed |-> closed ]
    ELSE LET h == FreshHandle(used) IN
         [ f |-> [f EXCEPT !.curr_file_path = Some(path), !.curr_file = Some(h),
                           !.curr_iter = NewIter(h, path)],
           open |-> after \cup {h}, outcome |-> "ok", h |-> Some(h),
           closed |-> closed ]

\* SetLastKey that records the Key of a group only when it is the one asked for
SetLastKeyOnMatch(last_key, key, q) == IF key = q THEN Some(key) ELSE last_key

\* self.last_key = key, first thing in the loop body for every group drawn
SetLastKey(last_key, key, q) == Some(key)

FScan(it, last_key, outcome, result, drawn) ==
    [ it |-> it, last_key |-> last_key, outcome |-> outcome, result |-> result,
      drawn |-> drawn ]

\* return [...]: g is the list comprehension over the group, which may raise
FinderReturn(g, key, drawn) ==
    IF g.kind = "raise" THEN FScan(g.it, Some(key), g.exc, <<>>, drawn)
    ELSE FScan(g.it, Some(key), "ok", g.val, drawn)

RECURSIVE FinderLoop(_, _, _, _, _, _)
RECURSIVE FinderGroup(_, _, _, _, _, _)
\* for key, records_group in self.curr_iter: self.last_key = key ... ; return []
FinderLoop(it, last_key, q, fs, open, drawn) ==
    FinderGroup(GroupbyNext(it, fs, open), last_key, q, fs, open, drawn)

\* the loop body; n is what next(self.curr_iter) gave
FinderGroup(n, last_key, q, fs, open, drawn) ==
    IF n.kind = "stop" THEN FScan(n.it, last_key, "ok", <<>>, drawn)
    ELSE IF n.kind = "raise" THEN FScan(n.it, last_key, n.exc, <<>>, drawn)
    ELSE IF SkipGroup(n.val[1], q)
         THEN FinderLoop(n.it, SetLastKey(last_key, n.val[1], q), q, fs, open,
                         Append(drawn, n.val[1]))
    ELSE IF KeyLess(q, n.val[1])
         THEN FScan(n.it, SetLastKey(last_key, n.val[1], q), "ok", <<>>,
                    Append(drawn, n.val[1]))
    ELSE FinderReturn(GroupList(n.it, fs, open, <<>>), n.val[1],
                      Append(drawn, n.val[1]))

\* what a call of Finder.search did: the Finder's fields and the open streams
\* after it, and what the call observed
Did(f, open, outcome, result, part, switched, drawn, h, closed) ==
    [ f |-> f, open |-> open, outcome |-> outcome, result |-> result,
      part |-> part, switched |-> switched, drawn |-> drawn, h |-> h,
      closed |-> closed ]

\* the end of Finder.search: s is the scan made after the switch sw (if any)
FinderEnd(sw, s, part, t) ==
    Did([sw.f EXCEPT !.curr_iter = s.it, !.last_key = s.last_key], sw.open,
        s.outcome, s.result, part, t = "switch", s.drawn, sw.h, sw.closed)

\* Finder.search from the for loop on, unless the switch raised
FinderScan(sw, part, t, q, fs) ==
    IF sw.outcome # "ok"
    THEN Did(sw.f, sw.open, sw.outcome, <<>>, part, TRUE, <<>>, None, sw.closed)
    ELSE FinderEnd(sw, FinderLoop(sw.f.curr_iter, sw.f.last_key, q, fs, sw.open, <<>>),
                   part, t)

\* Finder.search from the switch test on; t is what the test gave
FinderSwitch(f, part, t, q, fs, open, used) ==
    IF t = "TypeError"
    THEN Did(f, open, "TypeError", <<>>, part, FALSE, <<>>, None, None)
    ELSE FinderScan(IF t = "switch" THEN SwitchFile(f, part[1], fs, open, used)
                    ELSE [ f |-> f, open |-> open, outcome |-> "ok", h |-> None,
                           closed |-> None ],
                    part, t, q, fs)

\* FinderResolved that closes and forgets the current stream when the lookup
\* fails
FinderResolvedTeardown(f, part, q, fs, open, used) ==
    IF part = None
    THEN Did([f EXCEPT !.curr_file = None, !.curr_file_path = None],
             SwitchClose(f, open), "NotFound", <<>>, None, FALSE, <<>>, None, None)
    ELSE FinderSwitch(f, part, SwitchTest(f, part[1], q), q, fs, open, used)

\* Finder.search after the index lookup; part is the partition resolved
FinderResolved(f, part, q, fs, open, used) ==
    IF part = None
    THEN Did(f, open, "NotFound", <<>>, None, FALSE, <<>>, None, None)
    ELSE FinderSwitch(f, part, SwitchTest(f, part[1], q), q, fs, open, used)

\* the body of Finder.search (a miss of the lru_cache)
FinderSearch(f, q, fs, open, used) ==
    FinderResolved(f, ResolvePartition(f.index, q), q, fs, open, used)

\* FinderExit that forgets the stream but keeps curr_file_path
FinderExitKeepPath(f) ==
    IF f.curr_file # None THEN [f EXCEPT !.curr_file = None] ELSE f

\* __exit__
FinderExit(f) ==
    IF f.curr_file # None
    THEN [f EXCEPT !.curr_file = None, !.curr_file_path = None]
    ELSE f

----------------------------------------------------------------------------
(* The datasets explored *)

\* bound: number of lines in the partition files of a dataset, all together
MaxLines == 3

\* bound: number of runs of the build-index command
MaxBuilds == 2

Part0 == <<112, 97, 114, 116, 45, 48, 46, 103, 122>>   \* "part-0.gz"
Part1 == <<112, 97, 114, 116, 45, 49, 46, 103, 122>>   \* "part-1.gz"
Notes == <<110, 111, 116, 101, 115, 46, 103, 122>>     \* "notes.gz"

\* the Keys queried: ("d","b") < ("e","a") < ("e","a b")
Keys == { <<<<100>>, <<98>>>>, <<<<101>>, <<97>>>>, <<<<101>>, <<97, 32, 98>>>> }

\* the payloads "20090101-000000 5 120" and "20090101-010000 3 90"
Payloads ==
    << <<<<50,48,48,57,48,49,48,49,45,48,48,48,48,48,48>>, <<53>>, <<49,50,48>>>>,
       <<<<50,48,48,57,48,49,48,49,45,48,49,48,48,48,48>>, <<51>>, <<57,48>>>> >>

\* the line of a partition file for a Key and a payload
LineOf(k, p) == <<k[1], quote(k[2]), p[1], p[2], p[3]>>

\* "e a 20090101-000000 5": a line of four fields
BadLine == <<<<101>>, <<97>>, <<50,48,48,57,48,49,48,49,45,48,48,48,48,48,48>>, <<53>>>>

\* the lines that can stand at place i of a dataset: one per Key, the payloads
\* alternating from line to line, and the malformed line
LinesAt(i) == { LineOf(k, Payloads[(i % 2) + 1]) : k \in Keys } \cup { BadLine }

\* the well-formed lines of a sequence of lines, parsed
RECURSIVE Records(_)
Records(lines) ==
    IF lines = <<>> THEN <<>>
    ELSE IF Malformed(lines[1]) THEN Records(Tail(lines))
    ELSE <<parse_line(lines[1])>> \o Records(Tail(lines))

\* the records are in non-decreasing Key order
KeySorted(recs) ==
    \A i \in 1..(Len(recs) - 1) : KeyLeq(RecordKey(recs[i]), RecordKey(recs[i + 1]))

RECURSIVE LineSeqs(_)
\* the sequences of at most n lines whose records are in Key order
LineSeqs(n) ==
    IF n = 0 THEN { <<>> }
    ELSE LET S == LineSeqs(n - 1) IN
         S \cup { t \in { Append(s, l) : s \in { u \in S : Len(u) = n - 1 },
                                         l \in LinesAt(n) } :
                  KeySorted(Records(t)) }

\* a dataset: a Key-ordered sequence of lines cut into two partition files, and
\* a file that is not a partition
Dataset(s, c) ==
    (Part0 :> SubSeq(s, 1, c)) @@ (Part1 :> SubSeq(s, c + 1, Len(s)))
    @@ (Notes :> <<LineOf(<<<<100>>, <<98>>>>, Payloads[1])>>)

Datasets ==
    UNION { { Dataset(s, c) : c \in 0..Len(s) } : s \in LineSeqs(MaxLines) }

\* bound: number of records in a sequence given to the grouping
MaxRecords == 6

RECURSIVE RecordSeqs(_)
\* the sequences of at most n well-formed lines, in any order of Keys
RecordSeqs(n) ==
    IF n = 0 THEN { <<>> }
    ELSE LET S == RecordSeqs(n - 1) IN
         S \cup { Append(s, LineOf(k, Payloads[(n % 2) + 1])) :
                      s \in { u \in S : Len(u) = n - 1 }, k \in Keys }

----------------------------------------------------------------------------
(* The state machine *)

\* op, q: the call; outcome: "ok" or the exception raised; result: the value
\* returned; part: the partition resolved; cached: answered by the lru_cache;
\* switched: _switch_file was called; drawn: the Keys of the groups drawn; h: the
\* stream the call opened; closed: the stream _switch_file closed
Ret(op, q, outcome, result, part, cached, switched, drawn, h, closed) ==
    [ op |-> op, q |-> q, outcome |-> outcome, result |-> result, part |-> part,
      cached |-> cached, switched |-> switched, drawn |-> drawn, h |-> h,
      closed |-> closed ]

Init ==
    /\ files \in Datasets
    /\ unreadable = {}
    /\ index_file = None
    /\ finder = NoFinder
    /\ cache = None
    /\ open_files = {}
    /\ history = [ mono |-> TRUE, last |-> None, builds |-> 0, ok |-> FALSE,
                   result |-> <<>> ]
    /\ ret = Ret("init", None, "ok", <<>>, None, FALSE, FALSE, <<>>, None, None)

\* handles some reference still names
UsedHandles ==
    open_files \cup { finder.curr_iter.h }
    \cup (IF finder.curr_file = None THEN {} ELSE { finder.curr_file[1] })

\* b is what build_index did
BuildIndexDone(b) ==
    /\ index_file' = Some(b.written)
    /\ ret' = Ret("build_index", None, b.outcome, <<>>, None, FALSE, FALSE, <<>>,
                  None, None)

\* the build-index command: build_index(source_dir, index_path); the artifact
\* is built before it is loaded and is read-only thereafter
BuildIndex ==
    /\ ~finder.constructed
    /\ history.builds < MaxBuilds
    /\ BuildIndexDone(build_index(files, index_file))
    /\ history' = [history EXCEPT !.builds = @ + 1]
    /\ UNCHANGED <<files, unreadable, finder, cache, open_files>>

\* __init__ failed: there is no Finder
NoObject(outcome) ==
    /\ finder' = finder
    /\ ret' = Ret("Finder", None, outcome, <<>>, None, FALSE, FALSE, <<>>, None, None)

\* the field assignments of __init__ around self.index = read_index(index_path)
FinderLoaded(r) ==
    IF r.outcome # "ok" THEN NoObject(r.outcome)
    ELSE /\ finder' = [NoFinder EXCEPT !.constructed = TRUE, !.index = r.index]
         /\ ret' = Ret("Finder", None, "ok", <<>>, None, FALSE, FALSE, <<>>, None, None)

\* __init__ after the auto-build: raise if there is no artifact, else load it
FinderLoad(artifact) ==
    /\ index_file' = artifact
    /\ IF artifact = None THEN NoObject("IndexMissing")
       ELSE FinderLoaded(read_index(artifact[1]))

\* __init__ after build_index(source_dir, index_path) did b
FinderBuilt(b) ==
    IF b.outcome # "ok"
    THEN index_file' = Some(b.written) /\ NoObject(b.outcome)
    ELSE FinderLoad(Some(b.written))

\* Finder(source_dir, auto_index=auto_index)
NewFinder(auto_index) ==
    /\ ~finder.constructed
    /\ IF index_file = None /\ auto_index THEN FinderBuilt(build_index(files, index_file))
       ELSE FinderLoad(index_file)
    /\ UNCHANGED <<files, unreadable, cache, open_files, history>>

\* the history after Finder.search(q): ok says that the call returned, result
\* what it returned
Asked(q, ok, result) ==
    [ mono |-> history.mono /\ (history.last = None \/ KeyLeq(history.last[1], q)),
      last |-> Some(q), builds |-> history.builds, ok |-> ok, result |-> result ]

\* CacheHit of a cache that keeps nothing
CacheHitNever(c, q) == FALSE

\* functools.lru_cache(1): the call is answered from the cache when its
\* arguments are those of the entry kept
CacheHit(c, q) == c # None /\ c[1].key = q

\* a miss of the lru_cache ran the body, which did s; a result is cached
SearchMiss(s, q) ==
    /\ finder' = s.f
    /\ history' = Asked(q, s.outcome = "ok", s.result)
    /\ open_files' = s.open
    /\ cache' = IF s.outcome = "ok" THEN Some([ key |-> q, value |-> s.result ])
                ELSE cache
    /\ ret' = Ret("search", Some(q), s.outcome, s.result, s.part, FALSE,
                  s.switched, s.drawn, s.h, s.closed)

\* finder.search(project, page), through the lru_cache(1)
Search(q) ==
    /\ finder.constructed
    /\ IF CacheHit(cache, q)
       THEN /\ history' = Asked(q, TRUE, cache[1].value)
            /\ ret' = Ret("search", Some(q), "ok", cache[1].value, None, TRUE, FALSE,
                          <<>>, None, None)
            /\ UNCHANGED <<finder, cache, open_files>>
       ELSE SearchMiss(FinderSearch(finder, q, files, open_files, UsedHandles), q)
    /\ UNCHANGED <<files, unreadable, index_file>>

\* s is what search() did
SlowSearchDone(s, q) ==
    /\ open_files' = s.open
    /\ ret' = Ret("slow_search", Some(q), s.outcome, s.result, s.part, FALSE, FALSE,
                  s.drawn, s.h, None)

\* finder.slow_search(project, page): the stateless search on the Finder's index
SlowSearch(q) ==
    /\ finder.constructed
    /\ SlowSearchDone(search(files, finder.index, q, open_files, UsedHandles), q)
    /\ UNCHANGED <<files, unreadable, index_file, finder, cache, history>>

\* leaving "with Finder(...) as f:"
Exit ==
    /\ finder.constructed
    /\ finder' = FinderExit(finder)
    /\ open_files' = IF finder.curr_file # None THEN open_files \ {finder.curr_file[1]}
                     ELSE open_files
    /\ ret' = Ret("exit", None, "ok", <<>>, None, FALSE, FALSE, <<>>, None, None)
    /\ UNCHANGED <<files, unreadable, index_file, cache, history>>

\* one dataset, its index artifact and one Finder over its lifetime
Next ==
    \/ BuildIndex
    \/ \E auto_index \in BOOLEAN : NewFinder(auto_index)
    \/ \E q \in Keys : Search(q)
    \/ \E q \in Keys : SlowSearch(q)
    \/ Exit

Spec == Init /\ [][Next]_vars

\* a partition file stops being readable while the Finder is in use (removed,
\* or its permissions changed): gzip.open on it raises from now on; one file
\* at a time
MakeUnreadable(p) ==
    /\ finder.constructed
    /\ Glob(p) /\ unreadable = {}
    /\ unreadable' = unreadable \cup {p}
    /\ UNCHANGED <<files, index_file, finder, cache, open_files, history, ret>>

\* the file is readable again, with the lines it had
MakeReadable(p) ==
    /\ p \in unreadable
    /\ unreadable' = unreadable \ {p}
    /\ UNCHANGED <<files, index_file, finder, cache, open_files, history, ret>>

\* the Finder over its lifetime, with gzip.open failing on some file at times
NextOpenFails ==
    \/ BuildIndex
    \/ \E auto_index \in BOOLEAN : NewFinder(auto_index)
    \/ \E q \in Keys : Search(q)
    \/ Exit
    \/ \E p \in DOMAIN files : MakeUnreadable(p)
    \/ \E p \in DOMAIN files : MakeReadable(p)

SpecOpenFails == Init /\ [][NextOpenFails]_vars

\* the grouping on its own: one file of records, read through stream 1
InitGrouping ==
    /\ files \in { Part0 :> s : s \in RecordSeqs(MaxRecords) }
    /\ unreadable = {}
    /\ index_file = None
    /\ finder = NoFinder
    /\ cache = None
    /\ open_files = {1}
    /\ history = [ mono |-> TRUE, last |-> None, builds |-> 0, ok |-> FALSE,
                   result |-> <<>> ]
    /\ ret = Ret("init", None, "ok", <<>>, None, FALSE, FALSE, <<>>, None, None)

\* g is the grouped sequence read to its end
GroupingDone(g) ==
    ret' = Ret("group", None, g.outcome, g.groups, Some(Part0), FALSE, FALSE, g.keys,
               None, None)

\* [(key, list(group)) for key, group in parse_and_group_records(lines)]
Grouping ==
    /\ ret.op = "init"
    /\ GroupingDone(parse_and_group_records(files, Part0, 1))
    /\ UNCHANGED <<files, unreadable, index_file, finder, cache, open_files, history>>

NextGrouping == Grouping

SpecGrouping == InitGrouping /\ [][NextGrouping]_vars

----------------------------------------------------------------------------
(* What the properties speak about *)

\* the partition files of a dataset, in filename order
Partitions == <<Part0, Part1>>

\* every line of the partition parses
WellFormed(lines) == \A i \in 1..Len(lines) : ~Malformed(lines[i])

\* the global sort invariant: every line is a record, and the partition files,
\* read in filename order, yield the Keys in non-decreasing order
GlobalSort(fs) ==
    /\ \A i \in 1..Len(Partitions) : WellFormed(fs[Partitions[i]])
    /\ KeySorted(Records(fs[Part0] \o fs[Part1]))

RECURSIVE Matching(_, _)
\* (timestamp, count, bytes_trans) of the records of Key q among the lines, in order
Matching(lines, q) ==
    IF lines = <<>> THEN <<>>
    ELSE LET rest == Matching(Tail(lines), q) IN
         IF ~Malformed(lines[1]) /\ RecordKey(parse_line(lines[1])) = q
         THEN << <<parse_line(lines[1]).timestamp, parse_line(lines[1]).count,
                   parse_line(lines[1]).bytes_trans>> >> \o rest
         ELSE rest

\* the index the Finder loaded has an entry for every partition file
IndexComplete ==
    \A i \in 1..Len(Partitions) :
        \E j \in 1..Len(finder.index) : finder.index[j].file_name = Partitions[i]

\* the Keys of the loaded index are distinct
DistinctKeys ==
    \A i, j \in 1..Len(finder.index) :
        i # j => IndexKey(finder.index[i]) # IndexKey(finder.index[j])

\* q is smaller than every Key of the loaded index
BelowIndex(q) == \A j \in 1..Len(finder.index) : KeyLess(q, IndexKey(finder.index[j]))

\* a scan for q from the start of the partition has to read a malformed line
\* before it reaches a group of Key >= q
BadBeforeKey(lines, q) ==
    \E i \in 1..Len(lines) :
        /\ Malformed(lines[i])
        /\ \A j \in 1..(i - 1) :
               ~Malformed(lines[j]) /\ KeyLess(RecordKey(parse_line(lines[j])), q)

----------------------------------------------------------------------------
(* Properties *)

\* C1: on a dataset that satisfies the global sort invariant, while the queries
\* given to the Finder have been non-decreasing, each Finder.search call returns
\* (or raises) what the stateless search returns for that query on its own.
C1_FinderEqualsStateless ==
    (ret.op = "search" /\ history.mono /\ GlobalSort(files)) =>
        LET s == search(files, finder.index, ret.q[1], open_files, UsedHandles) IN
        ret.outcome = s.outcome /\ ret.result = s.result

\* a later call of a non-decreasing sequence continued the open scan and matched
C1_Witness ==
    /\ ret.op = "search" /\ history.mono /\ GlobalSort(files)
    /\ ~ret.cached /\ ~ret.switched /\ ret.result # <<>>

\* C2 (as claimed): given the global sort invariant and an index with an entry
\* of its own Key for every partition, the stateless search returns all of the
\* dataset's records for q: none sits in a partition other than the one
\* find_le names.
C2_AllRecordsOfKey ==
    (/\ ret.op = "slow_search" /\ ret.outcome = "ok"
     /\ GlobalSort(files) /\ IndexComplete /\ DistinctKeys) =>
        ret.result = Matching(files[Part0] \o files[Part1], ret.q[1])

\* C3 (as claimed): a search for a query smaller than every indexed Key returns
\* the empty list and raises nothing.
C3_NotFoundIsEmpty ==
    (ret.op \in {"search", "slow_search"} /\ BelowIndex(ret.q[1])) =>
        (ret.outcome = "ok" /\ ret.result = <<>>)

\* the last call scanned the partition it resolved from its start: a stateless
\* search, or a Finder.search that opened the stream anew, on a partition whose
\* lines all parse and are in Key order
ScannedFromStart ==
    /\ ret.op = "slow_search" \/ (ret.op = "search" /\ ret.switched)
    /\ ret.part # None
    /\ WellFormed(files[ret.part[1]]) /\ KeySorted(Records(files[ret.part[1]]))

\* C4: a scan for q from the start of a sorted partition returns exactly the
\* (timestamp, count, bytes_trans) of the partition's records of Key q, in file
\* order, and the empty list when there is none.
C4_ScanReturnsGroup ==
    ScannedFromStart =>
        (ret.outcome = "ok" /\ ret.result = Matching(files[ret.part[1]], ret.q[1]))

\* a stateless scan returned a group of two records
C4_Witness == ScannedFromStart /\ ret.op = "slow_search" /\ Len(ret.result) = 2

\* C5: on an index of distinct Keys, a search resolves the partition of the one
\* entry with the greatest Key <= q, and find_le fails with NotFound exactly when
\* q is smaller than every indexed Key.
C5_FindLe ==
    (ret.op \in {"search", "slow_search"} /\ ~ret.cached /\ DistinctKeys) =>
        /\ (ret.outcome = "NotFound") <=> BelowIndex(ret.q[1])
        /\ (ret.outcome = "NotFound") <=> (ret.part = None)
        /\ ret.part # None =>
               \E j \in 1..Len(finder.index) :
                   /\ finder.index[j].file_name = ret.part[1]
                   /\ KeyLeq(IndexKey(finder.index[j]), ret.q[1])
                   /\ \A i \in 1..Len(finder.index) :
                          KeyLeq(IndexKey(finder.index[i]), ret.q[1]) =>
                              KeyLeq(IndexKey(finder.index[i]), IndexKey(finder.index[j]))

\* two partitions are indexed and a query greater than both Keys resolved the second
C5_Witness ==
    /\ ret.op = "search" /\ ~ret.cached /\ DistinctKeys /\ Len(finder.index) = 2
    /\ KeyLess(IndexKey(finder.index[2]), ret.q[1])
    /\ ret.part = Some(Part1)

\* C6: the Finder holds at most one open stream, the one curr_file names; a
\* switch has closed the previous stream; after __exit__ no stream is open.
C6_OneOpenStream ==
    /\ Cardinality(open_files) <= 1
    /\ \A h \in open_files : finder.curr_file = Some(h)
    /\ ret.closed # None => ret.closed[1] \notin open_files
    /\ ret.op = "exit" => open_files = {}

\* a switch closed an open stream and opened another
C6_Witness == ret.op = "search" /\ ret.closed # None /\ ret.h # None

\* C7: when a stateless search ends, however it ends, the stream it opened is
\* closed; the call leaves the open streams, the Finder's cursor and the cache
\* as they were, so nothing of it is there for the next call.
C7_StatelessClosesStream ==
    /\ [](ret.op = "slow_search" =>
             /\ ret.h # None => ret.h[1] \notin open_files
             /\ \A h \in open_files : finder.curr_file = Some(h))
    /\ [][ret'.op = "slow_search" =>
             (open_files' = open_files /\ finder' = finder /\ cache' = cache)]_vars

\* a stateless search opened a stream and aborted with MalformedRecord while the
\* Finder held its own stream open
C7_Witness ==
    /\ ret.op = "slow_search" /\ ret.h # None /\ ret.outcome = "MalformedRecord"
    /\ open_files # {}

\* C8 (as claimed): a Finder never serves from an index that lacks the entry of
\* some partition file.
C8_NoPartialIndex == finder.constructed => IndexComplete

\* C9 (as claimed): a Finder.search call that runs its body on a partition
\* where a malformed line comes before the first group of Key >= q aborts with
\* MalformedRecord.
C9_AbortsOnMalformed ==
    (ret.op = "search" /\ ~ret.cached /\ ret.part # None
     /\ BadBeforeKey(files[ret.part[1]], ret.q[1])) =>
        ret.outcome = "MalformedRecord"

\* C10: a build that completes has written one line per partition file, in
\* filename order, which parses to the partition's name and the Key of the
\* partition's first record; every entry of a loaded index names a partition
\* file and holds the Key of that partition's first record.
C10_IndexEntries ==
    /\ (ret.op = "build_index" /\ ret.outcome = "ok") =>
           /\ index_file # None
           /\ Len(index_file[1]) = Len(Partitions)
           /\ \A i \in 1..Len(Partitions) :
                  /\ ~MalformedIndexLine(index_file[1][i])
                  /\ parse_index_line(index_file[1][i]).file_name = Partitions[i]
                  /\ IndexKey(parse_index_line(index_file[1][i]))
                         = RecordKey(parse_line(files[Partitions[i]][1]))
    /\ finder.constructed =>
           \A j \in 1..Len(finder.index) :
               \E i \in 1..Len(Partitions) :
                   /\ finder.index[j].file_name = Partitions[i]
                   /\ files[Partitions[i]] # <<>>
                   /\ IndexKey(finder.index[j])
                          = RecordKey(parse_line(files[Partitions[i]][1]))

\* a loaded index of two entries, one for a page with a space in its title
C10_Witness ==
    /\ finder.constructed /\ Len(finder.index) = 2
    /\ finder.index[2].page = <<97, 32, 98>>
    /\ ret.op = "Finder" /\ ret.outcome = "ok"

\* C11: a run of build_index that follows another on the unchanged dataset
\* leaves the artifact exactly as the first run left it: the artifact is
\* replaced, never appended to.
C11_BuildTwiceSameArtifact ==
    [][(ret.op = "build_index" /\ ret'.op = "build_index") =>
           index_file' = index_file]_vars

\* a second run has rewritten an artifact of two lines
C11_Witness ==
    /\ ret.op = "build_index" /\ history.builds = 2
    /\ index_file # None /\ Len(index_file[1]) = 2

\* C12: a Finder.search call with the arguments of the Finder's preceding
\* search call, which returned, is answered from the cache: it returns what
\* that call returned, opens no stream, draws no group, and leaves the current
\* partition, the open stream, the scan cursor and last_key as they were.
C12_RepeatIsMemoized ==
    [][(ret'.op = "search" /\ history.ok /\ history.last = ret'.q) =>
           /\ ret'.cached /\ ret'.outcome = "ok" /\ ret'.result = history.result
           /\ ret'.h = None /\ ~ret'.switched /\ ret'.drawn = <<>>
           /\ finder' = finder /\ open_files' = open_files]_vars

\* a repeated call returned a match from the cache while the stream of the
\* first call stayed open
C12_Witness ==
    /\ ret.op = "search" /\ ret.cached /\ ret.result # <<>>
    /\ open_files # {} /\ finder.last_key = ret.q

RECURSIVE Flatten(_, _)
\* the records of the groups, one after the other: the triples of group i
\* under the Key yielded with it
Flatten(keys, groups) ==
    IF groups = <<>> THEN <<>>
    ELSE [ j \in 1..Len(groups[1]) |-> <<keys[1], groups[1][j]>> ]
         \o Flatten(Tail(keys), Tail(groups))

\* the Key and the triple of every record of the lines, in order
KeyedTriples(lines) ==
    [ i \in 1..Len(lines) |->
        <<RecordKey(parse_line(lines[i])), Triple(parse_line(lines[i]))>> ]

\* the Keys of the lines, in order
KeysOf(lines) == [ i \in 1..Len(lines) |-> RecordKey(parse_line(lines[i])) ]

\* C13: grouping a sequence of records yields one (Key, group) pair per maximal
\* run of consecutive records of one Key, in input order: the groups are not
\* empty, their concatenation is the input sequence under the Keys yielded,
\* adjacent groups have different Keys (so nothing is re-sorted or merged), and
\* Keys [A,A,A,B,B,C] give three groups of 3, 2 and 1 records.
C13_GroupsAreMaximalRuns ==
    ret.op = "group" =>
        /\ ret.outcome = "ok"
        /\ Len(ret.drawn) = Len(ret.result)
        /\ \A i \in 1..Len(ret.result) : ret.result[i] # <<>>
        /\ Flatten(ret.drawn, ret.result) = KeyedTriples(files[Part0])
        /\ \A i \in 1..(Len(ret.drawn) - 1) : ret.drawn[i] # ret.drawn[i + 1]
        /\ (\E a, b, c \in Keys :
                /\ a # b /\ b # c
                /\ KeysOf(files[Part0]) = <<a, a, a, b, b, c>>) =>
               /\ Len(ret.result) = 3
               /\ Len(ret.result[1]) = 3 /\ Len(ret.result[2]) = 2
               /\ Len(ret.result[3]) = 1

\* the Keys [A,A,A,B,B,A] were grouped: A comes back as a group of its own
C13_Witness ==
    /\ ret.op = "group" /\ Len(files[Part0]) = 6 /\ Len(ret.drawn) = 3
    /\ KeysOf(files[Part0]) = <<ret.drawn[1], ret.drawn[1], ret.drawn[1],
                                ret.drawn[2], ret.drawn[2], ret.drawn[1]>>

RECURSIVE GroupKeys(_)
\* the Keys of the groups of a sequence of well-formed lines, in order
GroupKeys(lines) ==
    IF lines = <<>> THEN <<>>
    ELSE IF Len(lines) >= 2 /\ KeysOf(lines)[1] = KeysOf(lines)[2]
         THEN GroupKeys(Tail(lines))
    ELSE <<KeysOf(lines)[1]>> \o GroupKeys(Tail(lines))

RECURSIVE UpTo(_, _)
\* the Keys up to and including the first one that is >= q
UpTo(keys, q) ==
    IF keys = <<>> THEN <<>>
    ELSE IF KeyLess(keys[1], q) THEN <<keys[1]>> \o UpTo(Tail(keys), q)
    ELSE <<keys[1]>>

\* C14: a scan for q draws groups up to and including the first group of
\* Key >= q and none after it: every group drawn before the last one has a Key
\* below q, and a scan from the start of a partition of records draws exactly
\* the groups up to that one (with groups A, B, C and q = B: A and B, never C).
C14_EarlyExit ==
    (ret.op \in {"search", "slow_search"} /\ ~ret.cached /\ ret.part # None) =>
        /\ \A i \in 1..(Len(ret.drawn) - 1) : KeyLess(ret.drawn[i], ret.q[1])
        /\ ((ret.op = "slow_search" \/ ret.switched)
            /\ WellFormed(files[ret.part[1]])) =>
               ret.drawn = UpTo(GroupKeys(files[ret.part[1]]), ret.q[1])

\* a Finder.search for the second of three groups drew the first two
C14_Witness ==
    /\ ret.op = "search" /\ ~ret.cached /\ ret.part # None
    /\ Len(ret.drawn) = 2 /\ ret.drawn[2] = ret.q[1]
    /\ WellFormed(files[ret.part[1]])
    /\ Len(GroupKeys(files[ret.part[1]])) = 3

\* the switch condition of a call for q that resolved part, on the Finder f
MustSwitch(f, part, q) ==
    \/ f.curr_file_path # part
    \/ f.last_key # None /\ KeyLeq(q, f.last_key[1])

\* C15: a Finder.search call that runs its body and resolves a partition
\* closes the current stream and opens a fresh one, with a new scan on it, if
\* and only if the partition differs from the current one or last_key >= q;
\* otherwise it opens and closes nothing and goes on with the scan it has, from
\* where that scan stands.
C15_SwitchIff ==
    [][(ret'.op = "search" /\ ~ret'.cached /\ ret'.part # None) =>
           /\ ret'.outcome # "TypeError"
           /\ ret'.switched <=> MustSwitch(finder, ret'.part, ret'.q[1])
           /\ ret'.switched =>
                  /\ ret'.h # None /\ ret'.h[1] \notin open_files
                  /\ open_files' = {ret'.h[1]}
                  /\ ret'.closed = (IF finder.curr_file # None
                                        /\ finder.curr_file[1] \in open_files
                                     THEN finder.curr_file ELSE None)
                  /\ finder'.curr_file = ret'.h
                  /\ finder'.curr_file_path = ret'.part
                  /\ finder'.curr_iter.h = ret'.h[1]
                  /\ finder'.curr_iter.path = ret'.part[1]
           /\ ~ret'.switched =>
                  /\ ret'.h = None /\ ret'.closed = None
                  /\ open_files' = open_files
                  /\ finder'.curr_file = finder.curr_file
                  /\ finder'.curr_file_path = finder.curr_file_path
                  /\ finder'.curr_iter.h = finder.curr_iter.h
                  /\ finder'.curr_iter.path = finder.curr_iter.path
                  /\ finder'.curr_iter.pos >= finder.curr_iter.pos
                  /\ \A i \in 1..Len(ret'.drawn) :
                         KeyLess(finder.last_key[1], ret'.drawn[i])]_vars

\* a call went on with the open scan of a partition of three lines and drew
\* its last group
C15_Witness ==
    /\ ret.op = "search" /\ ~ret.cached /\ ~ret.switched
    /\ ret.part = finder.curr_file_path /\ Len(ret.drawn) = 1
    /\ finder.curr_iter.pos = 3

\* the Finder holds an open stream on a dataset under the global sort
\* invariant, and its scan has yielded a group
ScanUnderWay ==
    /\ finder.constructed /\ GlobalSort(files)
    /\ finder.curr_file # None /\ finder.curr_file[1] \in open_files
    /\ finder.curr_iter.tgtkey # None

\* line i of the scanned partition has been handed out by the scan: the
\* generator has read it and groupby does not hold it back as the record read
\* ahead
Passed(it, i) ==
    /\ i <= it.pos
    /\ ~(i = it.pos /\ it.currvalue # None)

\* C16: between Finder.search calls on a sorted dataset, while a stream is open
\* and its scan has yielded a group, last_key is the Key of the group yielded
\* last (matched or not); every record of the current partition with a Key
\* above last_key is still ahead of the scan; and a call that goes on with the
\* scan returns the partition's records of its Key.
C16_LastKeyIsLastDrawn ==
    /\ [](ScanUnderWay =>
             /\ finder.last_key = finder.curr_iter.tgtkey
             /\ \A i \in 1..Len(files[finder.curr_iter.path]) :
                    KeyLess(finder.last_key[1],
                            RecordKey(parse_line(files[finder.curr_iter.path][i])))
                        => ~Passed(finder.curr_iter, i))
    /\ [][(ret'.op = "search" /\ ~ret'.cached /\ ret'.part # None
            /\ ~ret'.switched /\ GlobalSort(files)) =>
               (ret'.outcome = "ok"
                /\ ret'.result = Matching(files[ret'.part[1]], ret'.q[1]))]_vars

\* a call that did not match left last_key at the group it stopped on, with
\* lines of the partition still ahead
C16_Witness ==
    /\ ScanUnderWay /\ ret.op = "search" /\ ~ret.cached /\ ret.result = <<>>
    /\ ret.q # finder.last_key
    /\ finder.curr_iter.pos < Len(files[finder.curr_iter.path])

\* C17: a Finder.search call that fails with NotFound leaves the Finder as it
\* was: the current partition, the open stream (still open), the scan cursor,
\* last_key and the cache are those of before the call, so the next query is
\* answered as if the call had not been made.
C17_NotFoundLeavesCursor ==
    [][(ret'.op = "search" /\ ret'.outcome = "NotFound") =>
           /\ finder' = finder /\ open_files' = open_files /\ cache' = cache
           /\ ret'.h = None /\ ret'.closed = None /\ ret'.drawn = <<>>]_vars

\* a query below every indexed Key failed while the Finder held an open stream
\* and a scan under way
C17_Witness ==
    /\ ret.op = "search" /\ ret.outcome = "NotFound"
    /\ finder.curr_file # None /\ finder.curr_file[1] \in open_files
    /\ finder.last_key # None /\ cache # None

\* the Finder has been torn down and has not run a search since: it holds no
\* stream, and the cursor of the closed scan is still there
TornDown ==
    /\ finder.constructed
    /\ finder.curr_file = None
    /\ finder.curr_iter # NoIter /\ finder.curr_iter.h \notin open_files

\* C19: the first Finder.search call to run its body after __exit__ returns
\* (or raises) what the stateless search does, whatever last_key was left; when
\* it resolves a partition it opens it anew and scans it from the start on the
\* new stream, drawing the groups the stateless search draws.
C19_SearchAfterExit ==
    [][(TornDown /\ ret'.op = "search" /\ ~ret'.cached) =>
           /\ ret'.outcome
                  = search(files, finder.index, ret'.q[1], open_files, UsedHandles).outcome
           /\ ret'.result
                  = search(files, finder.index, ret'.q[1], open_files, UsedHandles).result
           /\ ret'.drawn
                  = search(files, finder.index, ret'.q[1], open_files, UsedHandles).drawn
           /\ ret'.part # None =>
                  /\ ret'.switched /\ ret'.h # None
                  /\ ret'.h[1] # finder.curr_iter.h
                  /\ finder'.curr_iter.h = ret'.h[1]
                  /\ finder'.curr_file = ret'.h
                  /\ open_files' = open_files \cup {ret'.h[1]}]_vars

\* a search matched on a stream that is not the Finder's first, opened by a
\* switch that had no stream to close: the call came after __exit__
C19_Witness ==
    /\ ret.op = "search" /\ ret.switched /\ ret.closed = None
    /\ ret.h # None /\ ret.h[1] > 1 /\ ret.result # <<>>

\* the Finder's cursor is consistent: if a partition is recorded as the current
\* one, curr_file is an open stream and the scan reads that stream, opened on
\* that partition
ConsistentCursor ==
    finder.curr_file_path # None =>
        /\ finder.curr_file # None /\ finder.curr_file[1] \in open_files
        /\ finder.curr_iter.h = finder.curr_file[1]
        /\ Some(finder.curr_iter.path) = finder.curr_file_path

\* C18 (as claimed): when gzip.open fails during a switch, the Finder is left
\* consistent, and no later call goes on with a scan whose stream is closed.
C18_ConsistentAfterFailedOpen ==
    /\ ConsistentCursor
    /\ (ret.op = "search" /\ ~ret.cached /\ ret.part # None /\ ~ret.switched
         /\ ret.outcome # "TypeError") =>
            finder.curr_iter.h \in open_files

====
